---- MODULE Spec2Model ----
(***************************************************************************)
(* Model of the quick-trade runner (src/quickTrade.ts) and of the          *)
(* configuration loader it imports (src/unnamed/part_000, the module        *)
(* imported as "./config").                                                *)
(*                                                                         *)
(* A run is one execution of the script: the configuration module is       *)
(* evaluated, main() fetches the open markets, buys on the first one,      *)
(* sleeps DELAY_MS and sells.  Every continuation of main() between two    *)
(* awaits is one action.  The collaborator module "./bot" is not part of   *)
(* the sources; its calls are recorded and its outcomes (a returned value  *)
(* or a thrown exception) are chosen nondeterministically.                 *)
(*                                                                         *)
(* Two runs are kept side by side (RunIds).  Spec executes run 1 only.     *)
(* TwinSpec executes both, started from environments that differ only in   *)
(* KALSHI_BOT_DRY_RUN and answered identically by the collaborator.        *)
(***************************************************************************)
EXTENDS Integers, Sequences, FiniteSets, TLC

VARIABLES pc, config, frame, calls, outstanding, responses, liveOrders,
          buyResult, sellResult, timerArmed, elapsed, exitCode

vars == <<pc, config, frame, calls, outstanding, responses, liveOrders,
          buyResult, sellResult, timerArmed, elapsed, exitCode>>

RunIds == {1, 2}

(*************************** bounds *****************************************)
\* longest KALSHI_BOT_PRICE_CENTS text that is enumerated
MaxPriceLen == 3
\* longest KALSHI_BOT_CONTRACTS text that is enumerated
MaxCountLen == 1
\* longest market list the fetch returns (of the markets of Tickers)
MaxMarkets == 2
\* the clock advances DELAY_MS \div TicksPerDelay per tick
TicksPerDelay == 2

(*************************** numbers ****************************************)
\* A JavaScript number as far as the runner is concerned: an integer or NaN.
Num(n) == [nan |-> FALSE, val |-> n]
NaN == [nan |-> TRUE, val |-> 0]

\* Math.max(a, b): NaN if either argument is NaN
MathMax(a, b) ==
  IF a.nan \/ b.nan THEN NaN
  ELSE IF a.val >= b.val THEN a ELSE b

\* Math.min(a, b): NaN if either argument is NaN
MathMin(a, b) ==
  IF a.nan \/ b.nan THEN NaN
  ELSE IF a.val <= b.val THEN a ELSE b

(*************************** parseInt ***************************************)
\* Text is a sequence of one-character strings.
DigitChars == {"0", "1", "2", "3", "4", "5", "6", "7", "8", "9"}
WhiteSpace == {" "}

DigitVal(c) ==
  CASE c = "0" -> 0 [] c = "1" -> 1 [] c = "2" -> 2 [] c = "3" -> 3
    [] c = "4" -> 4 [] c = "5" -> 5 [] c = "6" -> 6 [] c = "7" -> 7
    [] c = "8" -> 8 [] c = "9" -> 9

RECURSIVE StripLeadingWhiteSpace(_)
StripLeadingWhiteSpace(s) ==
  IF s # <<>> /\ Head(s) \in WhiteSpace THEN StripLeadingWhiteSpace(Tail(s))
  ELSE s

\* the longest prefix of s made of decimal digits
RECURSIVE DigitPrefix(_)
DigitPrefix(s) ==
  IF s # <<>> /\ Head(s) \in DigitChars
  THEN <<Head(s)>> \o DigitPrefix(Tail(s))
  ELSE <<>>

RECURSIVE DigitsValue(_, _)
DigitsValue(s, acc) ==
  IF s = <<>> THEN acc
  ELSE DigitsValue(Tail(s), 10 * acc + DigitVal(Head(s)))

\* parseInt(s, 10): skip leading white space, read an optional sign, then the
\* longest run of decimal digits; NaN when there is no digit.
ParseInt(s) ==
  LET t == StripLeadingWhiteSpace(s)
      signed == t # <<>> /\ Head(t) \in {"+", "-"}
      negative == t # <<>> /\ Head(t) = "-"
      body == IF signed THEN Tail(t) ELSE t
      digits == DigitPrefix(body)
  IN  IF digits = <<>> THEN NaN
      ELSE IF negative THEN Num(0 - DigitsValue(digits, 0))
      ELSE Num(DigitsValue(digits, 0))

(*************************** environment ************************************)
\* An environment variable is unset or holds a text.  The two numeric
\* variables hold a sequence of characters (parseInt reads them character by
\* character), the other two a string.
Unset == [set |-> FALSE, val |-> <<>>]
UnsetStr == [set |-> FALSE, val |-> ""]
Text(s) == [set |-> TRUE, val |-> s]

\* v ?? d
Coalesce(v, d) == IF v.set THEN v.val ELSE d

EnvChars == {"0", "1", "9", "-", " ", "x"}

TextsUpTo(n) == UNION {[1..k -> EnvChars] : k \in 0..n}

PriceEnvValues == {Unset} \cup {Text(s) : s \in TextsUpTo(MaxPriceLen)}
CountEnvValues == {Unset} \cup {Text(s) : s \in TextsUpTo(MaxCountLen)}
SideEnvValues == {UnsetStr, Text("yes"), Text("no")}
DryRunEnvValues == {UnsetStr, Text("true"), Text("false")}

\* The exported constants of the configuration module, each from the value v
\* of its environment variable.
BOT_SIDE(v) == Coalesce(v, "yes")
BOT_PRICE_CENTS(v) == ParseInt(Coalesce(v, <<"5", "0">>))
BOT_CONTRACTS(v) == ParseInt(Coalesce(v, <<"1">>))
BOT_DRY_RUN(v) == v = Text("true")

NoConfig ==
  [BOT_SIDE |-> "", BOT_PRICE_CENTS |-> NaN, BOT_CONTRACTS |-> NaN,
   BOT_DRY_RUN |-> FALSE]

(*************************** collaborator ("./bot") *************************)
Tickers == {"KXBTC15M-A", "KXBTC15M-B"}
MarketRecords == [ticker : Tickers]
\* the lists of open markets, each market listed once
MarketLists ==
  {ms \in UNION {[1..k -> MarketRecords] : k \in 0..MaxMarkets} :
     \A i \in 1..Len(ms) : \A j \in 1..Len(ms) : ms[i] = ms[j] => i = j}

\* an order result is a success carrying orderId or a failure carrying error
BuyResults == {[orderId |-> "b1"], [error |-> "Order rejected"]}
SellResults == {[orderId |-> "s1"], [error |-> "Order rejected"]}
Exceptions == {"Authentication failed"}

\* The order functions simulate the order when the dry-run mode is configured,
\* unless the caller passes { arbLive: true } ("Skip dry-run").
Simulated(r, opts) == config[r].BOT_DRY_RUN /\ ~opts.arbLive
DryRunResult == [orderId |-> "dry-run"]

OrderFns == {"placeOrder", "placeSellOrder"}

\* the collaborator's answer to a call: a returned value or an exception
Returned(v) == [kind |-> "return", value |-> v]
Thrown(e) == [kind |-> "throw", value |-> e]

\* the outstanding call of function fn (there is one when this is used)
PendingCall(r, fn) ==
  LET q == SelectSeq(outstanding[r], LAMBDA c : c.fn = fn) IN q[1]

\* the outstanding calls once the call of fn has settled
Settle(q, fn) == SelectSeq(q, LAMBDA c : c.fn # fn)

\* the orders sent to the exchange once call has been made
Submit(r, orders, call) ==
  IF Simulated(r, call.opts) THEN orders ELSE Append(orders, call)

(*************************** runner *****************************************)
DELAY_MS == 5000

TickMs == DELAY_MS \div TicksPerDelay

\* markets[0]
FirstMarket(markets) == markets[1]

\* Math.max(1, BOT_CONTRACTS)
EffectiveCount(contracts) == MathMax(Num(1), contracts)

\* Math.max(1, Math.min(99, BOT_PRICE_CENTS))
EffectivePrice(price) == MathMax(Num(1), MathMin(Num(99), price))

\* a variant that takes no result for an error
IsErrorNever(result) == FALSE

\* "error" in result
IsError(result) == "error" \in DOMAIN result

\* a variant that goes live only when the dry-run mode is not configured
BuyOptionsFromConfig(r) == [arbLive |-> ~config[r].BOT_DRY_RUN]

\* the options object of the buy call and of the sell call
BuyOptions(r) == [arbLive |-> TRUE]
SellOptions(r) == [arbLive |-> TRUE]

FetchCall == [fn |-> "getBitcoinUpDownMarkets"]

BuyCall(r, ticker, side, count, priceCents) ==
  [fn |-> "placeOrder", ticker |-> ticker, side |-> side, count |-> count,
   priceCents |-> priceCents, opts |-> BuyOptions(r)]

SellCall(r, ticker, side, count) ==
  [fn |-> "placeSellOrder", ticker |-> ticker, side |-> side,
   count |-> count, opts |-> SellOptions(r)]

\* a variant whose timer fires without delay
TimerDueAtOnce(r) == elapsed[r] >= 0

\* the setTimeout of the delay has run its course
TimerDue(r) == elapsed[r] >= DELAY_MS

NoFrame == [ticker |-> "", side |-> "", count |-> NaN, priceCents |-> NaN]
NoResult == [pending |-> TRUE]

\* process.exit(code)
ProcessExit(r, code) ==
  /\ pc' = [pc EXCEPT ![r] = "exited"]
  /\ exitCode' = [exitCode EXCEPT ![r] = code]

\* main() resolved and nothing is left to run: the process ends with the
\* exit code it has, 0 unless something set it
NaturalExit(r) ==
  /\ pc' = [pc EXCEPT ![r] = "exited"]
  /\ UNCHANGED exitCode

\* variants that end the process with status 0
ExitNoMarketsZero(r) == ProcessExit(r, 0)
ExitBuyFailedZero(r) == ProcessExit(r, 0)
ExitSellFailedZero(r) == ProcessExit(r, 0)
CatchZero(r) == ProcessExit(r, 0)

\* console.error("... No open Bitcoin up/down markets found."); process.exit(1)
ExitNoMarkets(r) == ProcessExit(r, 1)

\* console.error("... Buy failed:", buyResult.error); process.exit(1)
ExitBuyFailed(r) == ProcessExit(r, 1)

\* console.error("... Sell failed:", sellResult.error); process.exit(1)
ExitSellFailed(r) == ProcessExit(r, 1)

\* main().catch((err) => { console.error(err); process.exit(1); })
Catch(r) == ProcessExit(r, 1)

Init ==
  /\ pc = [r \in RunIds |-> "load_side"]
  /\ config = [r \in RunIds |-> NoConfig]
  /\ frame = [r \in RunIds |-> NoFrame]
  /\ calls = [r \in RunIds |-> <<>>]
  /\ outstanding = [r \in RunIds |-> <<>>]
  /\ responses = [r \in RunIds |-> <<>>]
  /\ liveOrders = [r \in RunIds |-> <<>>]
  /\ buyResult = [r \in RunIds |-> NoResult]
  /\ sellResult = [r \in RunIds |-> NoResult]
  /\ timerArmed = [r \in RunIds |-> FALSE]
  /\ elapsed = [r \in RunIds |-> 0]
  /\ exitCode = [r \in RunIds |-> 0]

\* The configuration module is evaluated once, on import, one exported
\* constant after the other.  rs is the set of runs that evaluate it against
\* the same environment variable.
LoadSide(rs) ==
  /\ \A r \in rs : pc[r] = "load_side"
  /\ \E v \in SideEnvValues :
       config' = [r \in RunIds |->
                    IF r \in rs THEN [config[r] EXCEPT !.BOT_SIDE = BOT_SIDE(v)]
                    ELSE config[r]]
  /\ pc' = [r \in RunIds |-> IF r \in rs THEN "load_price" ELSE pc[r]]
  /\ UNCHANGED <<frame, calls, outstanding, responses, liveOrders,
                 buyResult, sellResult, timerArmed, elapsed, exitCode>>

LoadPriceCents(rs) ==
  /\ \A r \in rs : pc[r] = "load_price"
  /\ \E v \in PriceEnvValues :
       config' = [r \in RunIds |->
                    IF r \in rs
                    THEN [config[r] EXCEPT
                            !.BOT_PRICE_CENTS = BOT_PRICE_CENTS(v)]
                    ELSE config[r]]
  /\ pc' = [r \in RunIds |-> IF r \in rs THEN "load_contracts" ELSE pc[r]]
  /\ UNCHANGED <<frame, calls, outstanding, responses, liveOrders,
                 buyResult, sellResult, timerArmed, elapsed, exitCode>>

LoadContracts(rs) ==
  /\ \A r \in rs : pc[r] = "load_contracts"
  /\ \E v \in CountEnvValues :
       config' = [r \in RunIds |->
                    IF r \in rs
                    THEN [config[r] EXCEPT !.BOT_CONTRACTS = BOT_CONTRACTS(v)]
                    ELSE config[r]]
  /\ pc' = [r \in RunIds |-> IF r \in rs THEN "load_dry_run" ELSE pc[r]]
  /\ UNCHANGED <<frame, calls, outstanding, responses, liveOrders,
                 buyResult, sellResult, timerArmed, elapsed, exitCode>>

LoadDryRun(r) ==
  /\ pc[r] = "load_dry_run"
  /\ \E v \in DryRunEnvValues :
       config' = [config EXCEPT ![r].BOT_DRY_RUN = BOT_DRY_RUN(v)]
  /\ pc' = [pc EXCEPT ![r] = "start"]
  /\ UNCHANGED <<frame, calls, outstanding, responses, liveOrders,
                 buyResult, sellResult, timerArmed, elapsed, exitCode>>

\* main() up to its first await
CallFetch(r) ==
  /\ pc[r] = "start"
  /\ calls' = [calls EXCEPT ![r] = Append(@, FetchCall)]
  /\ outstanding' = [outstanding EXCEPT ![r] = Append(@, FetchCall)]
  /\ pc' = [pc EXCEPT ![r] = "await_fetch"]
  /\ UNCHANGED <<config, frame, responses, liveOrders, buyResult,
                 sellResult, timerArmed, elapsed, exitCode>>

\* getBitcoinUpDownMarkets() resolved: main() up to the await of the buy
FetchReturns(r) ==
  /\ pc[r] = "await_fetch"
  /\ \E markets \in MarketLists :
       /\ responses' = [responses EXCEPT ![r] = Append(@, Returned(markets))]
       /\ IF Len(markets) = 0
          THEN /\ ExitNoMarkets(r)
               /\ outstanding' =
                    [outstanding EXCEPT ![r] = Settle(@, FetchCall.fn)]
               /\ UNCHANGED <<frame, calls, liveOrders>>
          ELSE LET market == FirstMarket(markets)
                   ticker == market.ticker
                   side == config[r].BOT_SIDE
                   count == EffectiveCount(config[r].BOT_CONTRACTS)
                   priceCents == EffectivePrice(config[r].BOT_PRICE_CENTS)
                   call == BuyCall(r, ticker, side, count, priceCents)
               IN  /\ frame' = [frame EXCEPT ![r] =
                         [ticker |-> ticker, side |-> side, count |-> count,
                          priceCents |-> priceCents]]
                   /\ calls' = [calls EXCEPT ![r] = Append(@, call)]
                   /\ outstanding' = [outstanding EXCEPT ![r] =
                         Append(Settle(@, FetchCall.fn), call)]
                   /\ liveOrders' =
                         [liveOrders EXCEPT ![r] = Submit(r, @, call)]
                   /\ pc' = [pc EXCEPT ![r] = "await_buy"]
                   /\ UNCHANGED exitCode
  /\ UNCHANGED <<config, buyResult, sellResult, timerArmed, elapsed>>

\* getBitcoinUpDownMarkets() rejected
FetchThrows(r) ==
  /\ pc[r] = "await_fetch"
  /\ \E e \in Exceptions :
       responses' = [responses EXCEPT ![r] = Append(@, Thrown(e))]
  /\ outstanding' = [outstanding EXCEPT ![r] = Settle(@, FetchCall.fn)]
  /\ Catch(r)
  /\ UNCHANGED <<config, frame, calls, liveOrders, buyResult, sellResult,
                 timerArmed, elapsed>>

\* placeOrder() resolved: main() up to the await of the delay
BuyReturns(r) ==
  /\ pc[r] = "await_buy"
  /\ \E result \in (IF Simulated(r, PendingCall(r, "placeOrder").opts)
                    THEN {DryRunResult} ELSE BuyResults) :
       /\ buyResult' = [buyResult EXCEPT ![r] = result]
       /\ responses' = [responses EXCEPT ![r] = Append(@, Returned(result))]
       /\ IF IsError(result)
          THEN /\ ExitBuyFailed(r)
               /\ UNCHANGED <<timerArmed, elapsed>>
          ELSE /\ timerArmed' = [timerArmed EXCEPT ![r] = TRUE]
               /\ elapsed' = [elapsed EXCEPT ![r] = 0]
               /\ pc' = [pc EXCEPT ![r] = "sleeping"]
               /\ UNCHANGED exitCode
  /\ outstanding' = [outstanding EXCEPT ![r] = Settle(@, "placeOrder")]
  /\ UNCHANGED <<config, frame, calls, liveOrders, sellResult>>

\* placeOrder() rejected
BuyThrows(r) ==
  /\ pc[r] = "await_buy"
  /\ ~Simulated(r, PendingCall(r, "placeOrder").opts)
  /\ \E e \in Exceptions :
       responses' = [responses EXCEPT ![r] = Append(@, Thrown(e))]
  /\ outstanding' = [outstanding EXCEPT ![r] = Settle(@, "placeOrder")]
  /\ Catch(r)
  /\ UNCHANGED <<config, frame, calls, liveOrders, buyResult, sellResult,
                 timerArmed, elapsed>>

\* time passes while the delay's timer is pending
Tick(r) ==
  /\ pc[r] = "sleeping"
  /\ timerArmed[r]
  /\ elapsed[r] < DELAY_MS
  /\ elapsed' = [elapsed EXCEPT ![r] = @ + TickMs]
  /\ UNCHANGED <<pc, config, frame, calls, outstanding, responses,
                 liveOrders, buyResult, sellResult, timerArmed, exitCode>>

\* the delay's timer fired: main() up to the await of the sell
TimerFires(r) ==
  /\ pc[r] = "sleeping"
  /\ timerArmed[r]
  /\ TimerDue(r)
  /\ LET call == SellCall(r, frame[r].ticker, frame[r].side, frame[r].count)
     IN  /\ calls' = [calls EXCEPT ![r] = Append(@, call)]
         /\ outstanding' = [outstanding EXCEPT ![r] = Append(@, call)]
         /\ liveOrders' = [liveOrders EXCEPT ![r] = Submit(r, @, call)]
  /\ timerArmed' = [timerArmed EXCEPT ![r] = FALSE]
  /\ pc' = [pc EXCEPT ![r] = "await_sell"]
  /\ UNCHANGED <<config, frame, responses, buyResult, sellResult, elapsed,
                 exitCode>>

\* placeSellOrder() resolved: main() to its end
SellReturns(r) ==
  /\ pc[r] = "await_sell"
  /\ \E result \in (IF Simulated(r, PendingCall(r, "placeSellOrder").opts)
                    THEN {DryRunResult} ELSE SellResults) :
       /\ sellResult' = [sellResult EXCEPT ![r] = result]
       /\ responses' = [responses EXCEPT ![r] = Append(@, Returned(result))]
       /\ IF IsError(result) THEN ExitSellFailed(r) ELSE NaturalExit(r)
  /\ outstanding' = [outstanding EXCEPT ![r] = Settle(@, "placeSellOrder")]
  /\ UNCHANGED <<config, frame, calls, liveOrders, buyResult, timerArmed,
                 elapsed>>

\* placeSellOrder() rejected
SellThrows(r) ==
  /\ pc[r] = "await_sell"
  /\ ~Simulated(r, PendingCall(r, "placeSellOrder").opts)
  /\ \E e \in Exceptions :
       responses' = [responses EXCEPT ![r] = Append(@, Thrown(e))]
  /\ outstanding' = [outstanding EXCEPT ![r] = Settle(@, "placeSellOrder")]
  /\ Catch(r)
  /\ UNCHANGED <<config, frame, calls, liveOrders, buyResult, sellResult,
                 timerArmed, elapsed>>

\* the steps of main() in run r
Main(r) ==
  \/ CallFetch(r)
  \/ FetchReturns(r)
  \/ FetchThrows(r)
  \/ BuyReturns(r)
  \/ BuyThrows(r)
  \/ Tick(r)
  \/ TimerFires(r)
  \/ SellReturns(r)
  \/ SellThrows(r)

Next ==
  \/ LoadSide({1})
  \/ LoadPriceCents({1})
  \/ LoadContracts({1})
  \/ LoadDryRun(1)
  \/ Main(1)

Spec == Init /\ [][Next]_vars

\* Every ready continuation is run by the event loop, the timer fires, and
\* every collaborator call returns or throws.
FairSpec == Spec /\ WF_vars(Next)

(*************************** twin runs **************************************)
\* The two runs start from environments that differ only in
\* KALSHI_BOT_DRY_RUN, one of them with the dry-run mode configured and the
\* other without.
TwinLoadDryRun ==
  /\ pc[1] = "load_dry_run" /\ pc[2] = "load_dry_run"
  /\ \E v \in DryRunEnvValues, w \in DryRunEnvValues :
       /\ BOT_DRY_RUN(v) # BOT_DRY_RUN(w)
       /\ config' = [config EXCEPT ![1].BOT_DRY_RUN = BOT_DRY_RUN(v),
                                   ![2].BOT_DRY_RUN = BOT_DRY_RUN(w)]
  /\ pc' = [r \in RunIds |-> "start"]
  /\ UNCHANGED <<frame, calls, outstanding, responses, liveOrders,
                 buyResult, sellResult, timerArmed, elapsed, exitCode>>

\* The collaborator answers the k-th call of run 2 as it answered the k-th
\* call of run 1, when both are calls of the same function.
SameAnswers ==
  \A k \in 1..Len(responses[2]) :
    (k <= Len(responses[1]) /\ calls[1][k].fn = calls[2][k].fn)
      => responses[2][k] = responses[1][k]

\* The runs are separate processes that share nothing, so one schedule stands
\* for all: run 1 to its end, then run 2.
TwinFirst == pc[1] # "exited" /\ Main(1)
TwinSecond == pc[1] = "exited" /\ Main(2) /\ SameAnswers'

TwinNext ==
  \/ LoadSide(RunIds)
  \/ LoadPriceCents(RunIds)
  \/ LoadContracts(RunIds)
  \/ TwinLoadDryRun
  \/ TwinFirst
  \/ TwinSecond

TwinSpec == Init /\ [][TwinNext]_vars

(*************************** properties *************************************)
\* the calls of function fn that run r has made so far
CallsOf(r, fn) == SelectSeq(calls[r], LAMBDA c : c.fn = fn)
OrderCallsOf(r) == SelectSeq(calls[r], LAMBDA c : c.fn \in OrderFns)
OutstandingOrderCalls(r) ==
  SelectSeq(outstanding[r], LAMBDA c : c.fn \in OrderFns)

Exited(r) == pc[r] = "exited"
BuySucceeded(r) == "orderId" \in DOMAIN buyResult[r]
BuyFailed(r) == "error" \in DOMAIN buyResult[r]
SellSucceeded(r) == "orderId" \in DOMAIN sellResult[r]
SellFailed(r) == "error" \in DOMAIN sellResult[r]

\* the fetch of run r has returned a list of markets
FetchReturned(r) ==
  Len(responses[r]) >= 1 /\ responses[r][1].kind = "return"
FetchedEmpty(r) == FetchReturned(r) /\ Len(responses[r][1].value) = 0
FetchedSome(r) == FetchReturned(r) /\ Len(responses[r][1].value) > 0

\* the last answer of the collaborator was an exception
LastThrown(r) ==
  Len(responses[r]) >= 1 /\ responses[r][Len(responses[r])].kind = "throw"

\* C1: placeSellOrder is invoked only once placeOrder has returned a success,
\* and at most one order-placement call is outstanding at any time.
C1_SellOnlyAfterBuySuccess ==
  /\ (Len(CallsOf(1, "placeSellOrder")) > 0 => BuySucceeded(1))
  /\ Len(OutstandingOrderCalls(1)) <= 1
  /\ \A i \in 1..Len(calls[1]) :
       calls[1][i].fn = "placeSellOrder" =>
         \E j \in 1..(i - 1) :
           /\ calls[1][j].fn = "placeOrder"
           /\ responses[1][j] = Returned(buyResult[1])

\* the sell call is outstanding, the buy having returned a success
C1_Witness ==
  /\ pc[1] = "await_sell"
  /\ BuySucceeded(1)
  /\ Len(OutstandingOrderCalls(1)) = 1

\* C2: when the fetch returns an empty sequence the run has ended with exit
\* status 1 and has called neither placeOrder nor placeSellOrder.
C2_NoMarketsExitsWithoutOrders ==
  FetchedEmpty(1) =>
    /\ Exited(1)
    /\ exitCode[1] = 1
    /\ Len(OrderCallsOf(1)) = 0

C2_Witness == FetchedEmpty(1) /\ Exited(1)

\* C3: when the buy call returns an error result the run has ended with exit
\* status 1 and never makes a sell call.
C3_BuyErrorExitsWithoutSell ==
  BuyFailed(1) =>
    /\ Exited(1)
    /\ exitCode[1] = 1
    /\ Len(CallsOf(1, "placeSellOrder")) = 0

C3_Witness == BuyFailed(1) /\ Exited(1)

\* the sell call repeats the ticker, side and count of the buy call, whose
\* ticker is that of the first market the fetch returned
SellMatchesBuy(r) ==
  \A i \in 1..Len(calls[r]) :
    calls[r][i].fn = "placeSellOrder" =>
      LET buy == CallsOf(r, "placeOrder")[1]
          sell == calls[r][i]
      IN  /\ sell.ticker = buy.ticker
          /\ sell.side = buy.side
          /\ sell.count = buy.count
          /\ buy.ticker = responses[r][1].value[1].ticker

\* C4 (safety part): after a successful buy at most one sell call is made, it
\* is made only when DELAY_MS have elapsed since the buy result, with the
\* buy's ticker, side and count, and a run that has ended has made it.
C4_SellSafety ==
  BuySucceeded(1) =>
    /\ Len(CallsOf(1, "placeSellOrder")) <= 1
    /\ (Len(CallsOf(1, "placeSellOrder")) = 1 => elapsed[1] >= DELAY_MS)
    /\ SellMatchesBuy(1)
    /\ (Exited(1) => Len(CallsOf(1, "placeSellOrder")) = 1)

\* C4: if the buy call returns success then exactly one sell call is made, only
\* after the 5000 ms delay that starts at the buy result, and with the ticker,
\* side and count of the buy call (the ticker of the first market fetched).
C4_ExactlyOneSellAfterDelay ==
  /\ []C4_SellSafety
  /\ (BuySucceeded(1) ~> Len(CallsOf(1, "placeSellOrder")) = 1)

\* a run that fetched more than one market has ended after its sell call
C4_Witness ==
  /\ BuySucceeded(1)
  /\ Len(CallsOf(1, "placeSellOrder")) = 1
  /\ Len(responses[1][1].value) > 1
  /\ Exited(1)

\* the exit status of a run that has ended is 0 or 1, and 0 exactly when the
\* fetch returned a market and both order calls returned success
ExitStatusReflectsOutcome(r) ==
  Exited(r) =>
    /\ exitCode[r] \in {0, 1}
    /\ exitCode[r] = 0 <=>
         (FetchedSome(r) /\ BuySucceeded(r) /\ SellSucceeded(r))

\* C5: every run in which each collaborator call returns or throws ends, with
\* exit status 0 exactly when the fetch returned at least one market and both
\* the buy and the sell returned success, and with status 1 otherwise.
C5_TerminatesWithStatus ==
  /\ <>Exited(1)
  /\ []ExitStatusReflectsOutcome(1)

\* a run ended by an exception thrown by the sell call
C5_Witness == Exited(1) /\ LastThrown(1) /\ Len(responses[1]) = 3

\* C6 as stated: a run that has ended has completed both legs or has placed no
\* order.
C6_NoPartialSuccess ==
  Exited(1) =>
    \/ BuySucceeded(1) /\ SellSucceeded(1)
    \/ ~BuySucceeded(1) /\ ~SellSucceeded(1)

\* C6 amended: a run that has ended with a successful sell has a successful
\* buy; a run that has ended with a successful buy and no successful sell has
\* made its one sell call, which returned an error or threw, and has exit
\* status 1.
C6_PartialSuccessExitsOne ==
  Exited(1) =>
    /\ (SellSucceeded(1) => BuySucceeded(1))
    /\ (BuySucceeded(1) /\ ~SellSucceeded(1) =>
          /\ Len(CallsOf(1, "placeSellOrder")) = 1
          /\ (SellFailed(1) \/ LastThrown(1))
          /\ exitCode[1] = 1)

C6_Witness == Exited(1) /\ BuySucceeded(1) /\ SellFailed(1)

\* C7 as stated: the price of the buy call lies in 1..99; it is the configured
\* price when that is in range, 1 when it is below 1 and 99 when it is above.
C7_PriceClamped ==
  \A i \in 1..Len(calls[1]) :
    calls[1][i].fn = "placeOrder" =>
      LET configured == config[1].BOT_PRICE_CENTS
          price == calls[1][i].priceCents
      IN  /\ ~price.nan
          /\ price.val >= 1 /\ price.val <= 99
          /\ (~configured.nan =>
                price.val = (IF configured.val < 1 THEN 1
                             ELSE IF configured.val > 99 THEN 99
                             ELSE configured.val))

\* C8 as stated: the count of the buy call and of the sell call is at least 1,
\* and exactly 1 when the configured count is below 1.
C8_CountAtLeastOne ==
  \A i \in 1..Len(calls[1]) :
    calls[1][i].fn \in OrderFns =>
      LET configured == config[1].BOT_CONTRACTS
          count == calls[1][i].count
      IN  /\ ~count.nan
          /\ count.val >= 1
          /\ (~configured.nan /\ configured.val < 1 => count.val = 1)

\* C9 as stated: with the dry-run mode configured, no order of the run reaches
\* the exchange.
C9_DryRunPlacesNoRealOrder ==
  config[1].BOT_DRY_RUN => liveOrders[1] = <<>>

\* s is an initial segment of t
IsPrefix(s, t) ==
  /\ Len(s) <= Len(t)
  /\ \A k \in 1..Len(s) : s[k] = t[k]

\* C10: every order call carries arbLive = TRUE whatever the dry-run
\* configuration, and two runs that differ only in the dry-run configuration
\* issue the same sequence of collaborator calls with the same arguments.
C10_DryRunIgnored ==
  /\ \A r \in RunIds : \A i \in 1..Len(calls[r]) :
       calls[r][i].fn \in OrderFns => calls[r][i].opts.arbLive = TRUE
  /\ IsPrefix(calls[2], calls[1])
  /\ (Exited(1) /\ Exited(2) => calls[2] = calls[1])

\* both runs have ended after a buy and a sell, one of them with the dry-run
\* mode configured
C10_Witness ==
  /\ Exited(1) /\ Exited(2)
  /\ config[1].BOT_DRY_RUN # config[2].BOT_DRY_RUN
  /\ Len(calls[2]) = 3

====
